---------------------------- MODULE Spec2Model ----------------------------
(***************************************************************************)
(* Model of the C++ code-completion notebooks                              *)
(*   src/cpp_code_completion_pretraining.ipynb  (gated decoder)            *)
(*   src/unnamed/part_000                       (fine-tuning variant)      *)
(*                                                                         *)
(* Text is modelled as a sequence of one-character strings, a list of      *)
(* lines as a sequence of such sequences.  Probabilities are integers in   *)
(* percent.  VALIDATION_SPLIT is the fraction num/den.                     *)
(***************************************************************************)
EXTENDS Integers, Sequences, FiniteSets, TLC

(***************************************************************************)
(* Bounds of the model                                                     *)
(***************************************************************************)
MaxLines == 5
MaxSpan == 3
MaxStride == 3
SplitDen == 4

VARIABLES
  \* ---- configuration cell and dataset preprocessing cell ----
  raw_text,          \* lines of the source file (raw_text.splitlines())
  SAMPLE_SPAN,
  SAMPLE_STRIDE,
  VALIDATION_SPLIT,  \* [num, den]: the fraction num/den
  raw_lines,
  samples,
  windows,           \* history: samples as built, before random.shuffle
  val_idx,
  train_samples,
  val_samples,
  cell,              \* position in the preprocessing cell
  rng_pos,           \* number of draws from random since random.seed
  rng_memo,          \* history: the draws the seeded generator has produced
  pipeline_run,      \* 1 in the first run of the notebook, 2 in a rerun
  first_run,         \* history: what the first run produced
  reference,         \* history: an earlier suggest_changes call with the
                     \* same model, against which the current one is run
  \* ---- configuration of generation and training ----
  notebook,          \* "pretraining" (gated loop) or "finetuning" (pipeline)
  MAX_GEN_TOKENS,
  MIN_GEN_PROB,
  TRAIN_EPOCHS,
  MAX_TRAIN_EPOCHS,
  EARLY_STOP_PATIENCE,
  OPTUNA_ENABLED,
  \* ---- the interpreter ----
  pc,                \* position of the single thread of control
  error,             \* message of the exception raised, "" if none
  model_training,    \* the model's mode flag (model.training)
  rng_draws,         \* history: values drawn from random by the current call
  \* ---- frame of suggest_changes ----
  sc_caller,
  prompt,
  min_p,
  ids,
  input_len,
  changes,
  step_probs,        \* history: top probability of each forward pass
  step_ids,          \* history: arg-max id of each forward pass
  stopped_by,        \* history: why generation ended
  sc_tokenizer_calls,\* history: tokenizer calls of this suggest_changes call
  \* ---- frame of evaluate_model ----
  ev_caller,
  dataset,
  cpp_text,
  prompt_strategy,
  ev_ids,
  prompt_ids,
  printed,           \* sections printed by the current evaluate_model call
  mode_before,       \* history: model_training when evaluate_model was called
  \* ---- trainer, TrainerControl and the callbacks ----
  run,               \* "fresh", "training", "finished"
  epoch,
  train_dataset,
  remaining_train_epochs,
  should_training_stop,
  patience_counter,
  last_checkpoint,
  checkpoints,       \* numbers of the checkpoint-<n> folders in MODELS_DIR
  weights,           \* epochs of training behind the weights of trainer.model
  trials,            \* trials the hyperparameter search has completed
  events,            \* the callbacks installed and what the cells have run
  calls,             \* history: on_epoch_end calls that have run to their end
  stop_call,         \* history: the call in which CustomCallback set the flag
  es_fired,          \* history: EarlyStoppingCallback has set the flag
  train_dataloader   \* the train_dataloader argument of the latest
                     \* on_epoch_end call: None or the dataset it wraps

dataVars == <<raw_text, SAMPLE_SPAN, SAMPLE_STRIDE, VALIDATION_SPLIT,
              raw_lines, samples, windows, val_idx, train_samples,
              val_samples, cell, rng_pos, rng_memo, pipeline_run, first_run,
              reference>>

cfgVars == <<notebook, MAX_GEN_TOKENS, MIN_GEN_PROB, TRAIN_EPOCHS,
             MAX_TRAIN_EPOCHS, EARLY_STOP_PATIENCE, OPTUNA_ENABLED>>

scVars == <<sc_caller, prompt, min_p, ids, input_len, changes, step_probs,
            step_ids, stopped_by, sc_tokenizer_calls>>

evVars == <<ev_caller, dataset, cpp_text, prompt_strategy, ev_ids,
           prompt_ids, printed,
            mode_before>>

trVars == <<run, epoch, train_dataset, remaining_train_epochs,
            should_training_stop, patience_counter, last_checkpoint,
            checkpoints, weights, trials, events, calls, stop_call,
            es_fired, train_dataloader>>

runVars == <<cfgVars, pc, error, model_training, rng_draws, scVars, evVars,
             trVars>>

vars == <<dataVars, runVars>>

(***************************************************************************)
(* Python list and string primitives                                       *)
(***************************************************************************)
Min(a, b) == IF a < b THEN a ELSE b
Max(a, b) == IF a > b THEN a ELSE b

SeqsUpTo(S, n) == UNION {[1..k -> S] : k \in 0..n}

\* Normalisation of a slice bound k for a list of length n: a negative bound
\* counts from the end, and the result is clamped to 0..n.  Note -0 = 0.
PyBound(k, n) == IF k < 0 THEN Max(k + n, 0) ELSE Min(k, n)

\* s[start:stop] with 0-based bounds as Python normalises them.
PySlice(s, start, stop) ==
  SubSeq(s, PyBound(start, Len(s)) + 1, PyBound(stop, Len(s)))

\* s[:stop]
PySliceTo(s, stop) == PySlice(s, 0, stop)

\* s[start:]
PySliceFrom(s, start) == PySlice(s, start, Len(s))

\* range(0, stop, step) as the sequence of its values.
PyRange(stop, step) ==
  IF stop <= 0 THEN <<>>
  ELSE [k \in 1..(((stop - 1) \div step) + 1) |-> (k - 1) * step]

NL == "\n"

\* sep.join(lines) for the separator "\n".
RECURSIVE JoinLines(_)
JoinLines(lines) ==
  IF Len(lines) = 0 THEN <<>>
  ELSE IF Len(lines) = 1 THEN lines[1]
  ELSE lines[1] \o <<NL>> \o JoinLines(Tail(lines))

IsSpace(c) == c \in {" ", "\t"}

\* The pattern ([^\s]*)\s*//.* matches at position s with group 1 = line[s..e]
\* (e = s-1 for the empty group): the group holds no whitespace, whitespace
\* follows up to some w, and "//" stands at w+1, w+2; .* takes the rest.
MatchAt(line, s, e) ==
  /\ \A i \in s..e : ~IsSpace(line[i])
  /\ \E w \in e..Len(line) :
       /\ \A i \in (e + 1)..w : IsSpace(line[i])
       /\ w + 2 <= Len(line)
       /\ line[w + 1] = "/"
       /\ line[w + 2] = "/"

\* re.sub(r"([^\s]*)\s*//.*", r"\1", line): the leftmost match, its group
\* greedy (longest first); the match runs to the end of the line, so there is
\* at most one.  The text before the match is kept, the match becomes group 1.
StripComment(line) ==
  LET starts == {s \in 1..(Len(line) + 1) :
                   \E e \in (s - 1)..Len(line) : MatchAt(line, s, e)}
  IN IF starts = {} THEN line
     ELSE LET s == CHOOSE x \in starts : \A y \in starts : x <= y
              ends == {e \in (s - 1)..Len(line) : MatchAt(line, s, e)}
              e == CHOOSE x \in ends : \A y \in ends : x >= y
          IN SubSeq(line, 1, s - 1) \o SubSeq(line, s, e)

\* line.lstrip()
RECURSIVE LStrip(_)
LStrip(line) ==
  IF Len(line) > 0 /\ IsSpace(line[1]) THEN LStrip(Tail(line)) ELSE line

\* line.startswith(prefix)
StartsWith(line, prefix) ==
  /\ Len(line) >= Len(prefix)
  /\ SubSeq(line, 1, Len(prefix)) = prefix

Include == <<"#", "i", "n", "c", "l", "u", "d", "e">>

NonEmpty(line) == Len(line) > 0

\* Mutant: a line of whitespace counts as empty.
KeepLineTrimmed(line) ==
  Len(LStrip(line)) > 0 /\ ~StartsWith(LStrip(line), Include)

\* Mutant: the prefix is tested on the line as it stands, not left-trimmed.
KeepLineUntrimmed(line) == Len(line) > 0 /\ ~StartsWith(line, Include)

\* line and not line.lstrip().startswith("#include")
KeepLine(line) == Len(line) > 0 /\ ~StartsWith(LStrip(line), Include)

\* [re.sub(...) for line in raw_text.splitlines() if line]
StrippedLines(text) ==
  LET nonempty == SelectSeq(text, NonEmpty)
  IN [i \in 1..Len(nonempty) |-> StripComment(nonempty[i])]

\* [line for line in raw_lines
\*  if line and not line.lstrip().startswith("#include")]
FilteredLines(lines) == SelectSeq(lines, KeepLine)

\* The two comprehensions that clean the lines.
CleanedLines(text) == FilteredLines(StrippedLines(text))

\* Mutant: the range stops one short, range(0, len(lines)-span, stride).
WindowSamplesShortRange(lines, span, stride) ==
  LET starts == PyRange(Len(lines) - span, stride)
  IN [k \in 1..Len(starts) |->
        JoinLines(PySlice(lines, starts[k], starts[k] + span))]

\* Mutant: the windows advance by span instead of stride.
WindowSamplesSpanStep(lines, span, stride) ==
  LET starts == PyRange(Len(lines) - span + 1, span)
  IN [k \in 1..Len(starts) |->
        JoinLines(PySlice(lines, starts[k], starts[k] + span))]

\* The comprehension that builds the samples.
WindowSamples(lines, span, stride) ==
  LET starts == PyRange(Len(lines) - span + 1, stride)
  IN [k \in 1..Len(starts) |->
        JoinLines(PySlice(lines, starts[k], starts[k] + span))]

\* random.shuffle(x): for i in reversed(range(1, len(x))): j = randbelow(i+1);
\* x[i], x[j] = x[j], x[i].  draws[i] is the value drawn for (0-based) i.
RECURSIVE FisherYates(_, _, _)
FisherYates(x, draws, i) ==
  IF i < 1 THEN x
  ELSE LET j == draws[i]
           y == [x EXCEPT ![i + 1] = x[j + 1], ![j + 1] = x[i + 1]]
       IN FisherYates(y, draws, i - 1)

Draws(n) == {d \in [1..(n - 1) -> 0..(n - 1)] : \A i \in 1..(n - 1) : d[i] <= i}

\* The generator seeded by random.seed(RANDOM_SEED) yields one fixed sequence
\* of draws.  memo holds the part of it seen so far, each entry the bound and
\* the value of a randbelow call; the k-th call of shuffle (i = n - k) is
\* draw pos + k of the sequence, and it repeats the remembered value.
SeededDraws(n, memo, pos) ==
  {d \in Draws(n) :
     \A k \in 1..(n - 1) :
       (pos + k <= Len(memo) /\ memo[pos + k][1] = n - k + 1)
         => d[n - k] = memo[pos + k][2]}

Remembered(n, draws, memo, pos) ==
  [k \in 1..Max(Len(memo), pos + n - 1) |->
     IF k <= Len(memo) THEN memo[k]
     ELSE <<n - (k - pos) + 1, draws[n - (k - pos)]>>]

\* int(VALIDATION_SPLIT * len(samples)).  The float product, truncated, equals
\* the exact floor of num * n / den for every fraction and length used here.
ValIdx(split, n) == (split.num * n) \div split.den

\* Mutant: samples[:val_idx], the sign of the bound forgotten.
TrainSliceHead(s, v) == PySliceTo(s, v)

\* samples[:-val_idx]
TrainSlice(s, v) == PySliceTo(s, -v)

\* samples[-val_idx:]
ValSlice(s, v) == PySliceFrom(s, -v)

(***************************************************************************)
(* Values of the parts of the state a specification does not use           *)
(***************************************************************************)
None == <<>>
Some(x) == <<x>>

NoSuggestFrame ==
  /\ sc_caller = "none"
  /\ prompt = <<>>
  /\ min_p = 0
  /\ ids = <<>>
  /\ input_len = 0
  /\ changes = <<>>
  /\ step_probs = <<>>
  /\ step_ids = <<>>
  /\ stopped_by = "none"
  /\ sc_tokenizer_calls = 0

NoEvaluateFrame ==
  /\ ev_caller = "none"
  /\ dataset = None
  /\ cpp_text = None
  /\ prompt_strategy = "all"
  /\ ev_ids = <<>>
  /\ prompt_ids = <<>>
  /\ printed = <<>>
  /\ mode_before = FALSE

\* The frames as a call from the top level leaves them behind.
ClearSuggestFrame ==
  /\ sc_caller' = "none"
  /\ prompt' = <<>>
  /\ min_p' = 0
  /\ ids' = <<>>
  /\ input_len' = 0
  /\ changes' = <<>>
  /\ step_probs' = <<>>
  /\ step_ids' = <<>>
  /\ stopped_by' = "none"
  /\ sc_tokenizer_calls' = 0

ClearEvaluateFrame ==
  /\ ev_caller' = "none"
  /\ dataset' = None
  /\ cpp_text' = None
  /\ prompt_strategy' = "all"
  /\ ev_ids' = <<>>
  /\ prompt_ids' = <<>>
  /\ printed' = <<>>
  /\ mode_before' = FALSE

NoTraining ==
  /\ run = "fresh"
  /\ epoch = 0
  /\ train_dataset = <<>>
  /\ remaining_train_epochs = 0
  /\ should_training_stop = FALSE
  /\ patience_counter = 0
  /\ last_checkpoint = None
  /\ checkpoints = {}
  /\ weights = 0
  /\ trials = 0
  /\ events = {}
  /\ calls = 0
  /\ stop_call = 0
  /\ es_fired = FALSE
  /\ train_dataloader = None

NoRuntime ==
  /\ notebook = "pretraining"
  /\ MAX_GEN_TOKENS = 0
  /\ MIN_GEN_PROB = 0
  /\ TRAIN_EPOCHS = 0
  /\ MAX_TRAIN_EPOCHS = 0
  /\ EARLY_STOP_PATIENCE = 0
  /\ OPTUNA_ENABLED = FALSE
  /\ pc = "preprocessing"
  /\ error = ""
  /\ model_training = FALSE
  /\ rng_draws = 0
  /\ NoSuggestFrame
  /\ NoEvaluateFrame
  /\ NoTraining

NoReference ==
  [variant |-> "none", prompt_ids |-> <<>>, step_ids |-> <<>>,
   step_probs |-> <<>>, changes |-> <<>>]

\* random.seed(RANDOM_SEED) has just run and nothing was run before it.
NoEarlierRun ==
  /\ rng_pos = 0
  /\ rng_memo = <<>>
  /\ pipeline_run = 1
  /\ first_run = [samples |-> <<>>, train |-> <<>>, val |-> <<>>,
                  changes |-> <<>>, epochs |-> 0]
  /\ reference = NoReference

NoData ==
  /\ raw_text = <<>>
  /\ SAMPLE_SPAN = 1
  /\ SAMPLE_STRIDE = 1
  /\ VALIDATION_SPLIT = [num |-> 0, den |-> 1]
  /\ raw_lines = <<>>
  /\ samples = <<>>
  /\ windows = <<>>
  /\ val_idx = 0
  /\ train_samples = <<>>
  /\ val_samples = <<>>
  /\ cell = "done"
  /\ NoEarlierRun

(***************************************************************************)
(* The dataset preprocessing cell                                          *)
(***************************************************************************)
LineA == <<"a">>
LineB == <<"b", " ", "/", "/", "c">>
LineInc == Include \o <<" ", "x">>
DataLines == {LineA, LineB, LineInc}

InitData ==
  /\ raw_text \in SeqsUpTo(DataLines, MaxLines)
  /\ SAMPLE_SPAN \in 1..MaxSpan
  /\ SAMPLE_STRIDE \in 1..MaxStride
  /\ VALIDATION_SPLIT \in {[num |-> k, den |-> SplitDen] : k \in 0..SplitDen}
  /\ raw_lines = <<>>
  /\ samples = <<>>
  /\ windows = <<>>
  /\ val_idx = 0
  /\ train_samples = <<>>
  /\ val_samples = <<>>
  /\ cell = "clean"
  /\ NoEarlierRun
  /\ NoRuntime

StripComments ==
  /\ cell = "clean"
  /\ raw_lines' = StrippedLines(raw_text)
  /\ cell' = "filter"
  /\ UNCHANGED <<raw_text, SAMPLE_SPAN, SAMPLE_STRIDE, VALIDATION_SPLIT,
                 samples, windows, val_idx, train_samples, val_samples,
                 rng_pos, rng_memo, pipeline_run, first_run, reference,
                 runVars>>

FilterLines ==
  /\ cell = "filter"
  /\ raw_lines' = FilteredLines(raw_lines)
  /\ cell' = "window"
  /\ UNCHANGED <<raw_text, SAMPLE_SPAN, SAMPLE_STRIDE, VALIDATION_SPLIT,
                 samples, windows, val_idx, train_samples, val_samples,
                 rng_pos, rng_memo, pipeline_run, first_run, reference,
                 runVars>>

BuildSamples ==
  /\ cell = "window"
  /\ samples' = WindowSamples(raw_lines, SAMPLE_SPAN, SAMPLE_STRIDE)
  /\ windows' = samples'
  /\ cell' = "shuffle"
  /\ UNCHANGED <<raw_text, SAMPLE_SPAN, SAMPLE_STRIDE, VALIDATION_SPLIT,
                 raw_lines, val_idx, train_samples, val_samples,
                 rng_pos, rng_memo, pipeline_run, first_run, reference,
                 runVars>>

ShuffleSamples ==
  /\ cell = "shuffle"
  /\ \E draws \in SeededDraws(Len(samples), rng_memo, rng_pos) :
       /\ samples' = FisherYates(samples, draws, Len(samples) - 1)
       /\ rng_memo' = Remembered(Len(samples), draws, rng_memo, rng_pos)
  /\ rng_pos' = rng_pos + Max(Len(samples) - 1, 0)
  /\ cell' = "split"
  /\ UNCHANGED <<raw_text, SAMPLE_SPAN, SAMPLE_STRIDE, VALIDATION_SPLIT,
                 raw_lines, windows, val_idx, train_samples, val_samples,
                 pipeline_run, first_run, reference, runVars>>

SplitSamples ==
  /\ cell = "split"
  /\ val_idx' = ValIdx(VALIDATION_SPLIT, Len(samples))
  /\ train_samples' = TrainSlice(samples, val_idx')
  /\ val_samples' = ValSlice(samples, val_idx')
  /\ cell' = "done"
  /\ UNCHANGED <<raw_text, SAMPLE_SPAN, SAMPLE_STRIDE, VALIDATION_SPLIT,
                 raw_lines, samples, windows, rng_pos, rng_memo,
                 pipeline_run, first_run, reference, runVars>>

NextData ==
  \/ StripComments
  \/ FilterLines
  \/ BuildSamples
  \/ ShuffleSamples
  \/ SplitSamples

SpecData == InitData /\ [][NextData]_vars

(***************************************************************************)
(* The two comprehensions that clean the lines, on short lines of any text *)
(***************************************************************************)
MaxLineLen == 4

CleanAlphabet == {"a", " ", "/"}

IncludeLines == {Include, <<" ">> \o Include \o <<" ", "a">>,
                 <<"a">> \o Include}

CleanInputLines == SeqsUpTo(CleanAlphabet, MaxLineLen) \cup IncludeLines

LineBlank == <<" ">>
LineComment == <<" ", "/", "/", "a">>
LineIndentedInc == <<" ">> \o Include \o <<" ", "a">>
FilterInputLines == {LineA, LineB, LineBlank, LineComment, LineIndentedInc}

\* Short texts of any lines, and longer texts of a few kinds of lines.
CleanInputTexts ==
  SeqsUpTo(CleanInputLines, 2) \cup SeqsUpTo(FilterInputLines, MaxLines)

InitClean ==
  /\ raw_text \in CleanInputTexts
  /\ SAMPLE_SPAN = 1
  /\ SAMPLE_STRIDE = 1
  /\ VALIDATION_SPLIT = [num |-> 0, den |-> 1]
  /\ raw_lines = <<>>
  /\ samples = <<>>
  /\ windows = <<>>
  /\ val_idx = 0
  /\ train_samples = <<>>
  /\ val_samples = <<>>
  /\ cell = "clean"
  /\ NoEarlierRun
  /\ NoRuntime

NextClean ==
  \/ StripComments
  \/ FilterLines
  \/ BuildSamples

SpecClean == InitClean /\ [][NextClean]_vars

(***************************************************************************)
(* Properties of the preprocessing cell                                    *)
(***************************************************************************)
\* The lines of a text: the pieces between its newlines.
RECURSIVE SplitAtNL(_, _)
SplitAtNL(text, cur) ==
  IF Len(text) = 0 THEN <<cur>>
  ELSE IF text[1] = NL THEN <<cur>> \o SplitAtNL(Tail(text), <<>>)
  ELSE SplitAtNL(Tail(text), Append(cur, text[1]))

LinesOf(text) == SplitAtNL(text, <<>>)

Windowed == cell \in {"shuffle", "split", "done"}

Occurrences(x, s) == Cardinality({i \in 1..Len(s) : s[i] = x})

IsPermutationOf(s, t) ==
  /\ Len(s) = Len(t)
  /\ \A i \in 1..Len(s) : Occurrences(s[i], s) = Occurrences(s[i], t)

\* C1: for N cleaned lines the windowing step produces exactly
\* floor((N - span) / stride) + 1 samples when N >= span and none when
\* N < span, and every sample consists of exactly span lines.
C1_SampleCount ==
  Windowed =>
    LET N == Len(raw_lines)
    IN /\ N >= SAMPLE_SPAN =>
            Len(windows) = ((N - SAMPLE_SPAN) \div SAMPLE_STRIDE) + 1
       /\ N < SAMPLE_SPAN => Len(windows) = 0
       /\ Len(samples) = Len(windows)
       /\ \A k \in 1..Len(samples) : Len(LinesOf(samples[k])) = SAMPLE_SPAN

C1_Witness ==
  /\ cell = "done"
  /\ Len(raw_lines) >= SAMPLE_SPAN
  /\ SAMPLE_STRIDE >= 2
  /\ SAMPLE_SPAN >= 2
  /\ (Len(raw_lines) - SAMPLE_SPAN) % SAMPLE_STRIDE # 0
  /\ Len(samples) >= 2

\* C2: before shuffling, the k-th sample (k = 0, 1, ...) is the cleaned lines
\* k*stride .. k*stride+span-1 in their order, joined by newline, also when
\* stride > span; lines [a,b,c,d] with span 3 and stride 1 give
\* [a\nb\nc, b\nc\nd].
C2_WindowContent ==
  /\ Windowed =>
       \A k \in 1..Len(windows) :
         LinesOf(windows[k]) =
           [j \in 1..SAMPLE_SPAN |-> raw_lines[(k - 1) * SAMPLE_STRIDE + j]]
  /\ WindowSamples(<<<<"a">>, <<"b">>, <<"c">>, <<"d">>>>, 3, 1) =
       << <<"a", NL, "b", NL, "c">>, <<"b", NL, "c", NL, "d">> >>

C2_Witness ==
  /\ cell = "shuffle"
  /\ SAMPLE_STRIDE > SAMPLE_SPAN
  /\ Len(windows) >= 2
  /\ windows[1] # windows[2]

\* C3 (as claimed): the validation set has exactly floor(split * total)
\* samples and the training set the other total - floor(split * total).
C3_SplitSizes ==
  cell = "done" =>
    LET total == Len(samples)
        count == (VALIDATION_SPLIT.num * total) \div VALIDATION_SPLIT.den
    IN /\ Len(val_samples) = count
       /\ Len(train_samples) = total - count

\* C4 (as claimed): with validation_count = 0 the validation set is empty and
\* the training set is the whole shuffled pool; with validation_count =
\* len(samples) the training set is empty and the validation set is the pool.
C4_DegenerateSplit ==
  cell = "done" =>
    /\ val_idx = 0 => val_samples = <<>> /\ train_samples = samples
    /\ val_idx = Len(samples) => train_samples = <<>> /\ val_samples = samples

\* C5: the shuffled pool is a permutation of the windowed samples, and the
\* training set followed by the validation set is the shuffled pool: the
\* training set is a prefix of the pool and the validation set the rest.
C5_PartitionOfPool ==
  /\ cell \in {"split", "done"} => IsPermutationOf(samples, windows)
  /\ cell = "done" =>
       /\ train_samples \o val_samples = samples
       /\ train_samples = SubSeq(samples, 1, Len(train_samples))
       /\ val_samples = SubSeq(samples, Len(train_samples) + 1, Len(samples))

C5_Witness ==
  /\ cell = "done"
  /\ Len(train_samples) >= 2
  /\ Len(val_samples) >= 1
  /\ samples # windows
  /\ train_samples[1] # train_samples[2]

(***************************************************************************)
(* The tokenizer: a byte-pair vocabulary with one merge ("a" "b" -> "ab")  *)
(* and the end-of-text token                                               *)
(***************************************************************************)
EOS == 0
Vocab == 0..3
EosText == "<|endoftext|>"

\* The text a token id decodes to.
Surface(id) ==
  CASE id = EOS -> <<EosText>>
    [] id = 1 -> <<"a">>
    [] id = 2 -> <<"b">>
    [] id = 3 -> <<"a", "b">>

\* inverted_vocab[id]: the vocabulary entry of a token id.
InvertedVocab(id) ==
  CASE id = EOS -> EosText
    [] id = 1 -> "a"
    [] id = 2 -> "b"
    [] id = 3 -> "ab"

\* tokenizer.encode(text), tokenizer(text)["input_ids"]: merges applied
\* greedily from the left; no special token is added.
RECURSIVE Encode(_)
Encode(text) ==
  IF Len(text) = 0 THEN <<>>
  ELSE IF text[1] = EosText THEN <<EOS>> \o Encode(Tail(text))
  ELSE IF Len(text) >= 2 /\ text[1] = "a" /\ text[2] = "b"
    THEN <<3>> \o Encode(SubSeq(text, 3, Len(text)))
  ELSE IF text[1] = "a" THEN <<1>> \o Encode(Tail(text))
  ELSE <<2>> \o Encode(Tail(text))

\* tokenizer.decode(ids)
RECURSIVE Decode(_)
Decode(s) == IF Len(s) = 0 THEN <<>> ELSE Surface(s[1]) \o Decode(Tail(s))

IsNotEos(id) == id # EOS

\* Decoding as the text-generation pipeline does it: special tokens skipped.
DecodeSkipSpecial(s) == Decode(SelectSeq(s, IsNotEos))

\* " ".join([inverted_vocab[i] for i in ids])
RECURSIVE TokensRepr(_)
TokensRepr(s) ==
  IF Len(s) = 0 THEN <<>>
  ELSE IF Len(s) = 1 THEN <<InvertedVocab(s[1])>>
  ELSE <<InvertedVocab(s[1]), " ">> \o TokensRepr(Tail(s))

(***************************************************************************)
(* suggest_changes                                                         *)
(***************************************************************************)
\* Top probabilities a forward pass may report, in percent.
Probs == {50, 95, 99}

\* Mutant: the guard on the prompt is missing.
PromptNeverRejected(p) == FALSE

\* not prompt
PromptRejected(p) == Len(p) = 0

\* Mutant: the loop test is <= instead of <.
LoopContinuesInclusive(len, inlen, max) == len - inlen <= max

\* len(ids) - input_len < MAX_GEN_TOKENS
LoopContinues(len, inlen, max) == len - inlen < max

\* Mutant: the gate compares with <=.
GateClosesOnEqual(p, minp) == p <= minp

\* predictions[next_id] < min_p
GateCloses(p, minp) == p < minp

\* Mutant: the loop also ends when the end-of-text token is selected.
LoopBreaksAtEos(next_id, p, minp) == GateCloses(p, minp) \/ next_id = EOS

\* if predictions[next_id] < min_p: break -- the only break of the loop
LoopBreaks(next_id, p, minp) == GateCloses(p, minp)

PromptEmptyError == "suggest_changes: prompt is empty."

\* model(ids): the arg-max token and its probability.  The model is a
\* function of its input: where the reference call has run the same model
\* on the same ids, the output is the one the reference call saw.
ModelOutputs(ref, input) ==
  LET seen == {k \in 1..Len(ref.step_ids) :
                 ref.prompt_ids \o SubSeq(ref.step_ids, 1, k - 1) = input}
  IN IF seen = {} THEN Vocab \X Probs
     ELSE {<<ref.step_ids[k], ref.step_probs[k]>> : k \in seen}

\* The guard on the prompt and, past it, the tokenization of the prompt.
SuggestEnter ==
  /\ pc = "sc_enter"
  /\ IF PromptRejected(prompt)
     THEN /\ pc' = "raised"
          /\ error' = PromptEmptyError
          /\ UNCHANGED <<ids, input_len, sc_tokenizer_calls>>
     ELSE /\ ids' = Encode(prompt)
          /\ input_len' = Len(ids')
          /\ sc_tokenizer_calls' = sc_tokenizer_calls + 1
          /\ pc' = IF notebook = "pretraining" THEN "sc_loop" ELSE "sc_pipe"
          /\ error' = error
  /\ UNCHANGED <<dataVars, cfgVars, model_training, rng_draws, sc_caller,
                 prompt, min_p, changes, step_probs, step_ids, stopped_by,
                 evVars, trVars>>

\* One iteration of the while loop: a forward pass, the arg-max and the gate.
SuggestStep ==
  /\ pc = "sc_loop"
  /\ LoopContinues(Len(ids), input_len, MAX_GEN_TOKENS)
  /\ \E <<next_id, p>> \in ModelOutputs(reference, ids) :
       /\ step_probs' = Append(step_probs, p)
       /\ step_ids' = Append(step_ids, next_id)
       /\ IF LoopBreaks(next_id, p, min_p)
          THEN /\ pc' = "sc_exit"
               /\ stopped_by' = "gate"
               /\ ids' = ids
          ELSE /\ ids' = Append(ids, next_id)
               /\ UNCHANGED <<pc, stopped_by>>
  /\ UNCHANGED <<dataVars, cfgVars, error, model_training, rng_draws,
                 sc_caller, prompt, min_p, input_len, changes,
                 sc_tokenizer_calls, evVars, trVars>>

\* The loop test fails.
SuggestLoopEnd ==
  /\ pc = "sc_loop"
  /\ ~LoopContinues(Len(ids), input_len, MAX_GEN_TOKENS)
  /\ pc' = "sc_exit"
  /\ stopped_by' = "length"
  /\ UNCHANGED <<dataVars, cfgVars, error, model_training, rng_draws,
                 sc_caller, prompt, min_p, ids, input_len, changes,
                 step_probs, step_ids, sc_tokenizer_calls, evVars, trVars>>

\* Where suggest_changes returns to.
ReturnSite ==
  CASE sc_caller = "top" -> "done"
    [] sc_caller = "compare" -> "compared"
    [] OTHER -> "ev_return"

\* Mutant: the whole sequence is returned, the prompt included.
GeneratedIdsWithPrompt(s, inlen) == s

\* ids[input_len:]
GeneratedIds(s, inlen) == PySliceFrom(s, inlen)

\* return tokenizer.decode(ids[input_len:])
SuggestReturn ==
  /\ pc = "sc_exit"
  /\ changes' = Decode(GeneratedIds(ids, input_len))
  /\ sc_tokenizer_calls' = sc_tokenizer_calls + 1
  /\ pc' = ReturnSite
  /\ UNCHANGED <<dataVars, cfgVars, error, model_training, rng_draws,
                 sc_caller, prompt, min_p, ids, input_len, step_probs,
                 step_ids, stopped_by, evVars, trVars>>

\* The text-generation pipeline, one generated token: no gate; generation
\* ends at max_new_tokens or with the end-of-text token.
PipelineStep ==
  /\ pc = "sc_pipe"
  /\ Len(ids) - input_len < MAX_GEN_TOKENS
  /\ stopped_by = "none"
  /\ \E <<next_id, p>> \in ModelOutputs(reference, ids) :
       /\ step_probs' = Append(step_probs, p)
       /\ step_ids' = Append(step_ids, next_id)
       /\ ids' = Append(ids, next_id)
       /\ stopped_by' = IF next_id = EOS THEN "eos" ELSE "none"
  /\ UNCHANGED <<dataVars, cfgVars, pc, error, model_training, rng_draws,
                 sc_caller, prompt, min_p, input_len, changes,
                 sc_tokenizer_calls, evVars, trVars>>

\* The pipeline returns the generated text without the prompt.
PipelineReturn ==
  /\ pc = "sc_pipe"
  /\ ~(Len(ids) - input_len < MAX_GEN_TOKENS /\ stopped_by = "none")
  /\ changes' = DecodeSkipSpecial(PySliceFrom(ids, input_len))
  /\ stopped_by' = IF stopped_by = "eos" THEN "eos" ELSE "length"
  /\ sc_tokenizer_calls' = sc_tokenizer_calls + 1
  /\ pc' = ReturnSite
  /\ UNCHANGED <<dataVars, cfgVars, error, model_training, rng_draws,
                 sc_caller, prompt, min_p, ids, input_len, step_probs,
                 step_ids, evVars, trVars>>

(***************************************************************************)
(* evaluate_model                                                          *)
(***************************************************************************)
Strategies == {"start", "end", "all"}

\* Mutant: the second half starts one position late.
PromptIdsGap(s, strategy) ==
  CASE strategy = "start" -> PySliceTo(s, Len(s) \div 2)
    [] strategy = "end" -> PySliceFrom(s, Len(s) \div 2 + 1)
    [] OTHER -> s

\* The slice of the token ids that serves as the prompt.
PromptIds(s, strategy) ==
  CASE strategy = "start" -> PySliceTo(s, Len(s) \div 2)
    [] strategy = "end" -> PySliceFrom(s, Len(s) \div 2)
    [] OTHER -> s

Section(name, text) == [section |-> name, text |-> text]

\* Mutant: the guard on the arguments is missing.
SourceNeverMissing(ds, text) == FALSE

\* dataset is None and cpp_text is None
SourceMissing(ds, text) == ds = None /\ text = None

SourceMissingError == "evaluate_model: one of dataset and cpp_text must be set."
EmptyRangeError == "randint: empty range"
NotTextError == "tokenizer.encode: the input is not a string"

\* Mutant: the mode of the model is left as it is.
EvalModeSkipped(flag) == flag

\* model.eval(): the mode flag model.training after the call
EvalMode(flag) == FALSE

\* Mutant: the prompt is printed before the tokens.
ReportSectionsPromptFirst(text, tokens, p) ==
  <<Section("C++ CODE", text), Section("PROMPT", p), Section("TOKENS", tokens)>>

\* The three print statements before the call of suggest_changes.
ReportSections(text, tokens, p) ==
  <<Section("C++ CODE", text), Section("TOKENS", tokens), Section("PROMPT", p)>>

\* From the sample's ids and text to the call of suggest_changes: the three
\* sections are printed and the prompt is derived.
EvaluateReport(sample_ids, text) ==
  LET p == Decode(PromptIds(sample_ids, prompt_strategy))
  IN /\ ev_ids' = sample_ids
     /\ prompt_ids' = PromptIds(sample_ids, prompt_strategy)
     /\ cpp_text' = Some(text)
     /\ printed' = ReportSections(text, TokensRepr(sample_ids), p)
     /\ prompt' = p
     /\ min_p' = MIN_GEN_PROB
     /\ sc_caller' = "evaluate"
     /\ ids' = <<>>
     /\ input_len' = 0
     /\ changes' = <<>>
     /\ step_probs' = <<>>
     /\ step_ids' = <<>>
     /\ stopped_by' = "none"
     /\ sc_tokenizer_calls' = 0
     /\ pc' = "sc_enter"
     /\ error' = error

\* evaluate_model up to its call of suggest_changes.
EvaluateEnter ==
  /\ pc = "ev_enter"
  /\ IF SourceMissing(dataset, cpp_text)
     THEN /\ pc' = "raised"
          /\ error' = SourceMissingError
          /\ UNCHANGED <<model_training, rng_draws, scVars, cpp_text, ev_ids,
                         prompt_ids, printed>>
     ELSE /\ model_training' = EvalMode(model_training)
          /\ IF dataset # None
             THEN IF Len(dataset[1]) = 0
                  THEN /\ pc' = "raised"
                       /\ error' = EmptyRangeError
                       /\ UNCHANGED <<rng_draws, scVars, cpp_text, ev_ids,
                                      prompt_ids, printed>>
                  ELSE \E index \in 0..(Len(dataset[1]) - 1) :
                         /\ rng_draws' = rng_draws + 1
                         /\ EvaluateReport(dataset[1][index + 1],
                                           Decode(dataset[1][index + 1]))
             ELSE IF cpp_text = None
                  THEN /\ pc' = "raised"
                       /\ error' = NotTextError
                       /\ UNCHANGED <<rng_draws, scVars, cpp_text, ev_ids,
                                      prompt_ids, printed>>
                  ELSE /\ rng_draws' = rng_draws
                       /\ EvaluateReport(Encode(cpp_text[1]), cpp_text[1])
  /\ UNCHANGED <<dataVars, cfgVars, ev_caller, dataset, prompt_strategy,
                 mode_before, trVars>>

\* evaluate_model after suggest_changes has returned.
EvaluateFinish ==
  /\ pc = "ev_return"
  /\ printed' = Append(printed, Section("GENERATED", changes))
  /\ pc' = IF ev_caller = "top" THEN "done" ELSE "cb_count"
  /\ UNCHANGED <<dataVars, cfgVars, error, model_training, rng_draws, scVars,
                 ev_caller, dataset, cpp_text, prompt_strategy, ev_ids,
                 prompt_ids,
                 mode_before, trVars>>

(***************************************************************************)
(* Calls from the top level of the notebook                                *)
(***************************************************************************)
Prompts == {<<>>, <<"a">>, <<"a", "b">>, <<"b", "a", "b">>}

TextArgs == {None, Some(<<>>), Some(<<"a">>), Some(<<"b", "a", "b">>)}

DatasetArgs ==
  {None, Some(<<>>), Some(<< <<1, 2>> >>), Some(<< <<2>>, <<3, 1, EOS>> >>)}

\* suggest_changes(model, tokenizer, device_type, prompt, min_p)
CallSuggest ==
  /\ pc = "idle"
  /\ \E p \in Prompts, mp \in Probs :
       /\ prompt' = p
       /\ min_p' = mp
  /\ sc_caller' = "top"
  /\ ids' = <<>>
  /\ input_len' = 0
  /\ changes' = <<>>
  /\ step_probs' = <<>>
  /\ step_ids' = <<>>
  /\ stopped_by' = "none"
  /\ sc_tokenizer_calls' = 0
  /\ ClearEvaluateFrame
  /\ rng_draws' = 0
  /\ pc' = "sc_enter"
  /\ UNCHANGED <<dataVars, cfgVars, error, model_training, trVars>>

\* evaluate_model(model, tokenizer, dataset, cpp_text, prompt_strategy)
CallEvaluate ==
  /\ pc = "idle"
  /\ \E ds \in DatasetArgs, text \in TextArgs, strategy \in Strategies :
       /\ dataset' = ds
       /\ cpp_text' = text
       /\ prompt_strategy' = strategy
  /\ ev_caller' = "top"
  /\ ev_ids' = <<>>
  /\ prompt_ids' = <<>>
  /\ printed' = <<>>
  /\ mode_before' = model_training
  /\ ClearSuggestFrame
  /\ rng_draws' = 0
  /\ pc' = "ev_enter"
  /\ UNCHANGED <<dataVars, cfgVars, error, model_training, trVars>>

\* Bound on the configured MAX_GEN_TOKENS
MaxGenTokens == 3

\* MIN_GEN_PROB = 0.95, in percent
ConfiguredMinGenProb == 95

Init ==
  /\ NoData
  /\ notebook \in {"pretraining", "finetuning"}
  /\ MAX_GEN_TOKENS \in 0..MaxGenTokens
  /\ MIN_GEN_PROB = ConfiguredMinGenProb
  /\ TRAIN_EPOCHS = 0
  /\ MAX_TRAIN_EPOCHS = 0
  /\ EARLY_STOP_PATIENCE = 0
  /\ OPTUNA_ENABLED = FALSE
  /\ pc = "idle"
  /\ error = ""
  /\ model_training \in BOOLEAN
  /\ rng_draws = 0
  /\ NoSuggestFrame
  /\ NoEvaluateFrame
  /\ NoTraining

Next ==
  \/ CallSuggest
  \/ CallEvaluate
  \/ SuggestEnter
  \/ SuggestStep
  \/ SuggestLoopEnd
  \/ SuggestReturn
  \/ PipelineStep
  \/ PipelineReturn
  \/ EvaluateEnter
  \/ EvaluateFinish

Spec == Init /\ [][Next]_vars

(***************************************************************************)
(* The two variants of suggest_changes, called one after the other with    *)
(* the same model, prompt and MAX_GEN_TOKENS                               *)
(***************************************************************************)
OtherNotebook(nb) == IF nb = "pretraining" THEN "finetuning" ELSE "pretraining"

\* The other notebook's suggest_changes, called with the prompt of the call
\* that has returned.
CallOtherVariant ==
  /\ pc = "done"
  /\ sc_caller = "top"
  /\ reference' = [variant |-> notebook, prompt_ids |-> PySliceTo(ids, input_len),
                   step_ids |-> step_ids, step_probs |-> step_probs,
                   changes |-> changes]
  /\ notebook' = OtherNotebook(notebook)
  /\ sc_caller' = "compare"
  /\ ids' = <<>>
  /\ input_len' = 0
  /\ changes' = <<>>
  /\ step_probs' = <<>>
  /\ step_ids' = <<>>
  /\ stopped_by' = "none"
  /\ sc_tokenizer_calls' = 0
  /\ pc' = "sc_enter"
  /\ UNCHANGED <<raw_text, SAMPLE_SPAN, SAMPLE_STRIDE, VALIDATION_SPLIT,
                 raw_lines, samples, windows, val_idx, train_samples,
                 val_samples, cell, rng_pos, rng_memo, pipeline_run,
                 first_run, MAX_GEN_TOKENS, MIN_GEN_PROB, TRAIN_EPOCHS,
                 MAX_TRAIN_EPOCHS, EARLY_STOP_PATIENCE, OPTUNA_ENABLED, error,
                 model_training,
                 rng_draws, prompt, min_p, evVars, trVars>>

NextBoth ==
  \/ CallSuggest
  \/ SuggestEnter
  \/ SuggestStep
  \/ SuggestLoopEnd
  \/ SuggestReturn
  \/ PipelineStep
  \/ PipelineReturn
  \/ CallOtherVariant

SpecBoth == Init /\ [][NextBoth]_vars

(***************************************************************************)
(* The training run: Trainer, CustomCallback, EarlyStoppingCallback        *)
(***************************************************************************)
MaxGenTrain == 1
MaxBudget == 3
MaxEpochs == 4
MaxPatience == 2
MaxResume == 2

TrainDatasets == {<< <<1, 2>> >>, << <<2>>, <<3, 1>> >>}

TestTexts == {<<"a">>, <<"a", "b", "b">>}

\* cpp_text=samples[0]: the first sample of the preprocessing cell where the
\* specification runs that cell, one of TestTexts where it does not.
TestTextArgs == IF Len(samples) > 0 THEN {samples[1]} ELSE TestTexts

\* Possible contents of MODELS_DIR when the training cell starts.
Checkpoints == SUBSET (1..MaxResume)

\* Mutant: the oldest checkpoint is taken.
GetOldestCheckpoint(folder) ==
  IF folder = {} THEN None
  ELSE Some(CHOOSE c \in folder : \A d \in folder : c <= d)

\* get_last_checkpoint(MODELS_DIR): None without a checkpoint folder, else
\* the folder with the largest number.
GetLastCheckpoint(folder) ==
  IF folder = {} THEN None
  ELSE Some(CHOOSE c \in folder : \A d \in folder : d <= c)

\* The checkpoint folders after the save of an epoch under
\* save_total_limit=1: the new one, and the best one where
\* load_best_model_at_end keeps it.
RotatedCheckpoints(folder, saved, improved) ==
  IF notebook = "pretraining" \/ improved \/ folder = {}
  THEN {{saved}}
  ELSE {{best, saved} : best \in folder}

\* Mutant: the counter is not decremented.
DecrementSkipped(r) == r

\* self._remaining_train_epochs -= 1
Decrement(r) == r - 1

\* Mutant: the stop is requested one call early.
StopReachedEarly(r) == r <= 1

\* self._remaining_train_epochs == 0
StopReached(r) == r = 0

\* The state after the cells that configure and construct the trainer: the
\* CustomCallback has been constructed with the full budget.
\* Mutant: the switch is ignored, direct training is always selected.
SearchNeverSelected(flag) == FALSE

\* if OPTUNA_ENABLED: ... else: ...
SearchSelected(flag) == flag

\* callbacks=None if OPTUNA_ENABLED else [CustomCallback()]; the finetuning
\* notebook adds EarlyStoppingCallback to the list.
TrainerCallbacks(nb, flag) ==
  IF SearchSelected(flag) THEN {}
  ELSE IF nb = "finetuning" THEN {"CustomCallback", "EarlyStoppingCallback"}
  ELSE {"CustomCallback"}

InitTrain ==
  /\ NoData
  /\ notebook \in {"pretraining", "finetuning"}
  /\ MAX_GEN_TOKENS \in 0..MaxGenTrain
  /\ MIN_GEN_PROB = ConfiguredMinGenProb
  /\ TRAIN_EPOCHS \in (0 - 1)..MaxBudget
  /\ MAX_TRAIN_EPOCHS \in 1..MaxEpochs
  /\ EARLY_STOP_PATIENCE \in
       IF notebook = "finetuning" THEN 1..MaxPatience ELSE {0}
  /\ OPTUNA_ENABLED \in BOOLEAN
  /\ pc = "idle"
  /\ error = ""
  /\ model_training \in BOOLEAN
  /\ rng_draws = 0
  /\ NoSuggestFrame
  /\ NoEvaluateFrame
  /\ run = "fresh"
  /\ epoch = 0
  /\ train_dataset \in TrainDatasets
  /\ remaining_train_epochs = TRAIN_EPOCHS
  /\ should_training_stop = FALSE
  /\ patience_counter = 0
  /\ last_checkpoint = None
  /\ checkpoints \in Checkpoints
  /\ weights = 0
  /\ trials = 0
  /\ events = TrainerCallbacks(notebook, OPTUNA_ENABLED)
  /\ calls = 0
  /\ stop_call = 0
  /\ es_fired = FALSE
  /\ train_dataloader = None

\* Mutant: the counter is restored as if the epochs before the checkpoint
\* had been counted.
BudgetRestored(remaining, resumed_epoch) == remaining - resumed_epoch

\* The counter of CustomCallback when training starts at resumed_epoch: the
\* callback is not part of the checkpoint, its counter is the one __init__
\* has set.
BudgetOnResume(remaining, resumed_epoch) == remaining

\* last_checkpoint = get_last_checkpoint(MODELS_DIR);
\* trainer.train(resume_from_checkpoint=last_checkpoint)
StartTraining ==
  /\ pc = "idle"
  /\ run = "fresh"
  /\ ~SearchSelected(OPTUNA_ENABLED)
  /\ events' = events \cup {"get_last_checkpoint", "train"}
  /\ run' = "training"
  /\ last_checkpoint' = GetLastCheckpoint(checkpoints)
  /\ epoch' = IF last_checkpoint' = None THEN 0 ELSE last_checkpoint'[1]
  /\ weights' = epoch'
  /\ remaining_train_epochs' = BudgetOnResume(remaining_train_epochs, epoch')
  /\ should_training_stop' = FALSE
  /\ pc' = IF epoch' < MAX_TRAIN_EPOCHS THEN "tr_epoch" ELSE "tr_end"
  /\ UNCHANGED <<dataVars, cfgVars, error, model_training, rng_draws, scVars,
                 evVars, train_dataset,
                 patience_counter, checkpoints, trials, calls, stop_call,
                 es_fired, train_dataloader>>

\* One epoch of training steps: the model is in training mode; the trainer
\* then calls the callbacks' on_epoch_end.
TrainEpoch ==
  /\ pc = "tr_epoch"
  /\ model_training' = TRUE
  /\ weights' = weights + 1
  /\ pc' = "cb_enter"
  /\ UNCHANGED <<dataVars, cfgVars, error, rng_draws, scVars, evVars, run,
                 epoch, train_dataset, remaining_train_epochs,
                 should_training_stop, patience_counter, last_checkpoint,
                 checkpoints, trials, events, calls, stop_call, es_fired,
                 train_dataloader>>

\* Mutant: the evaluation is made whether or not there is a dataloader.
EvaluationNeverSkipped(dataloader) == FALSE

\* not (train_dataloader is not None)
EvaluationSkipped(dataloader) == dataloader = None

\* CustomCallback.on_epoch_end up to the end of its if statement.
OnEpochEnd ==
  /\ pc = "cb_enter"
  /\ \E dataloader \in {None, Some(train_dataset)} :
       /\ train_dataloader' = dataloader
       /\ IF EvaluationSkipped(dataloader)
          THEN /\ ClearEvaluateFrame
               /\ pc' = "cb_count"
          ELSE /\ dataset' = dataloader
               /\ cpp_text' = None
               /\ prompt_strategy' = "all"
               /\ ev_caller' = "callback"
               /\ ev_ids' = <<>>
               /\ prompt_ids' = <<>>
               /\ printed' = <<>>
               /\ mode_before' = model_training
               /\ pc' = "ev_enter"
  /\ ClearSuggestFrame
  /\ rng_draws' = 0
  /\ UNCHANGED <<dataVars, cfgVars, error, model_training, run, epoch,
                 train_dataset, remaining_train_epochs, should_training_stop,
                 patience_counter, last_checkpoint, checkpoints, weights,
                 trials, events, calls, stop_call, es_fired>>

\* CustomCallback.on_epoch_end from the decrement on.
OnEpochEndCount ==
  /\ pc = "cb_count"
  /\ remaining_train_epochs' = Decrement(remaining_train_epochs)
  /\ calls' = calls + 1
  /\ IF StopReached(remaining_train_epochs')
     THEN /\ should_training_stop' = TRUE
          /\ stop_call' = calls'
     ELSE UNCHANGED <<should_training_stop, stop_call>>
  /\ pc' = "tr_evaluate"
  /\ UNCHANGED <<dataVars, cfgVars, error, model_training, rng_draws, scVars,
                 evVars, run, epoch, train_dataset, patience_counter,
                 last_checkpoint, checkpoints, weights, trials, events,
                 es_fired, train_dataloader>>

\* Mutant: the early stopping callback writes its verdict over the flag.
RequestStopOverride(flag, fires) == fires

\* EarlyStoppingCallback.on_evaluate: control.should_training_stop = True
\* when the patience is used up; the flag is left alone otherwise.
RequestStop(flag, fires) == flag \/ fires

\* The trainer after on_epoch_end: the evaluation, the callbacks' on_evaluate
\* (EarlyStoppingCallback counts evaluations without improvement), the
\* checkpoint of the epoch, and the test of should_training_stop.
EndOfEpoch ==
  /\ pc = "tr_evaluate"
  /\ \E improved \in (IF epoch = 0 THEN {TRUE} ELSE BOOLEAN) :
       LET counter == IF improved THEN 0 ELSE patience_counter + 1
           fires == notebook = "finetuning" /\ counter >= EARLY_STOP_PATIENCE
       IN /\ patience_counter' =
               IF notebook = "finetuning" THEN counter ELSE patience_counter
          /\ es_fired' = (es_fired \/ fires)
          /\ should_training_stop' = RequestStop(should_training_stop, fires)
          /\ checkpoints' \in RotatedCheckpoints(checkpoints, epoch + 1, improved)
  /\ epoch' = epoch + 1
  /\ pc' = IF should_training_stop' \/ epoch' >= MAX_TRAIN_EPOCHS
           THEN "tr_end" ELSE "tr_epoch"
  /\ UNCHANGED <<dataVars, cfgVars, error, model_training, rng_draws, scVars,
                 evVars, run, train_dataset, remaining_train_epochs,
                 last_checkpoint, weights, trials, events, calls, stop_call,
                 train_dataloader>>

\* trainer.train returns; the final evaluation is reported.
TrainEnd ==
  /\ pc = "tr_end"
  /\ run' = "finished"
  /\ events' = events \cup {"final_report"}
  /\ pc' = "testing"
  /\ UNCHANGED <<dataVars, cfgVars, error, model_training, rng_draws, scVars,
                 evVars, epoch, train_dataset, remaining_train_epochs,
                 should_training_stop, patience_counter, last_checkpoint,
                 checkpoints, weights, trials, calls, stop_call, es_fired,
                 train_dataloader>>

\* The testing cell: evaluate_model(trainer.model, tokenizer,
\* cpp_text=samples[0])
TestingCell ==
  /\ pc = "testing"
  /\ ~SearchSelected(OPTUNA_ENABLED)
  /\ events' = events \cup {"testing"}
  /\ \E text \in TestTextArgs : cpp_text' = Some(text)
  /\ dataset' = None
  /\ prompt_strategy' = "all"
  /\ ev_caller' = "top"
  /\ ev_ids' = <<>>
  /\ prompt_ids' = <<>>
  /\ printed' = <<>>
  /\ mode_before' = model_training
  /\ ClearSuggestFrame
  /\ rng_draws' = 0
  /\ pc' = "ev_enter"
  /\ UNCHANGED <<dataVars, cfgVars, error, model_training, run, epoch,
                 train_dataset, remaining_train_epochs, should_training_stop,
                 patience_counter, last_checkpoint, checkpoints, weights,
                 trials, calls, stop_call, es_fired,
                 train_dataloader>>

\* OPTUNA_EPOCHS = 2
OPTUNA_EPOCHS == 2

\* Bound on n_trials (20 in the notebooks)
MaxTrials == 2

\* trainer.hyperparameter_search(...): the first trial starts.  The trainer
\* was built with callbacks=None and save_strategy="no".
StartSearch ==
  /\ pc = "idle"
  /\ run = "fresh"
  /\ SearchSelected(OPTUNA_ENABLED)
  /\ run' = "searching"
  /\ events' = events \cup {"hyperparameter_search"}
  /\ pc' = "hp_epoch"
  /\ UNCHANGED <<dataVars, cfgVars, error, model_training, rng_draws, scVars,
                 evVars, epoch, train_dataset, remaining_train_epochs,
                 should_training_stop, patience_counter, last_checkpoint,
                 checkpoints, weights, trials, calls, stop_call, es_fired,
                 train_dataloader>>

\* One epoch of a trial: training steps and the evaluation of the epoch; no
\* callback of the notebook is installed and no checkpoint is written.
SearchEpoch ==
  /\ pc = "hp_epoch"
  /\ model_training' = TRUE
  /\ weights' = weights + 1
  /\ epoch' = epoch + 1
  /\ pc' = IF epoch' >= OPTUNA_EPOCHS THEN "hp_trial_end" ELSE "hp_epoch"
  /\ UNCHANGED <<dataVars, cfgVars, error, rng_draws, scVars, evVars, run,
                 train_dataset, remaining_train_epochs, should_training_stop,
                 patience_counter, last_checkpoint, checkpoints, trials,
                 events, calls, stop_call, es_fired,
                 train_dataloader>>

\* A trial ends: the next one starts from model_init, or the search returns
\* and best_trials is printed.
SearchTrialEnd ==
  /\ pc = "hp_trial_end"
  /\ trials' = trials + 1
  /\ epoch' = 0
  /\ IF trials' < MaxTrials
     THEN /\ weights' = 0
          /\ pc' = "hp_epoch"
          /\ run' = run
     ELSE /\ weights' = weights
          /\ pc' = "testing"
          /\ run' = "searched"
  /\ UNCHANGED <<dataVars, cfgVars, error, model_training, rng_draws, scVars,
                 evVars, train_dataset, remaining_train_epochs,
                 should_training_stop, patience_counter, last_checkpoint,
                 checkpoints, events, calls, stop_call, es_fired,
                 train_dataloader>>

\* The testing cell when its condition is false.
SkipTesting ==
  /\ pc = "testing"
  /\ SearchSelected(OPTUNA_ENABLED)
  /\ pc' = "done"
  /\ UNCHANGED <<dataVars, cfgVars, error, model_training, rng_draws, scVars,
                 evVars, trVars>>

NextTrain ==
  \/ StartTraining
  \/ StartSearch
  \/ SearchEpoch
  \/ SearchTrialEnd
  \/ SkipTesting
  \/ TrainEpoch
  \/ OnEpochEnd
  \/ OnEpochEndCount
  \/ EndOfEpoch
  \/ TrainEnd
  \/ TestingCell
  \/ SuggestEnter
  \/ SuggestStep
  \/ SuggestLoopEnd
  \/ SuggestReturn
  \/ PipelineStep
  \/ PipelineReturn
  \/ EvaluateEnter
  \/ EvaluateFinish

SpecTrain == InitTrain /\ [][NextTrain]_vars

(***************************************************************************)
(* The whole notebook, run from the seed cell to the testing cell, and run  *)
(* a second time with MODELS_DIR as the first run left it                   *)
(***************************************************************************)
ReproTexts == {<<LineA, LineB, LineA>>, <<LineB, LineInc, LineA, LineA>>}

\* Mutant: the generator is not seeded again.
ReseedSkipped(pos) == pos

\* random.seed(RANDOM_SEED): the generator is back at the start of the
\* sequence of its seed.
Reseed(pos) == 0

InitRepro ==
  /\ raw_text \in ReproTexts
  /\ SAMPLE_SPAN \in 1..2
  /\ SAMPLE_STRIDE = 1
  /\ VALIDATION_SPLIT = [num |-> 1, den |-> 2]
  /\ raw_lines = <<>>
  /\ samples = <<>>
  /\ windows = <<>>
  /\ val_idx = 0
  /\ train_samples = <<>>
  /\ val_samples = <<>>
  /\ cell = "clean"
  /\ NoEarlierRun
  /\ notebook \in {"pretraining", "finetuning"}
  /\ MAX_GEN_TOKENS = 1
  /\ MIN_GEN_PROB = ConfiguredMinGenProb
  /\ TRAIN_EPOCHS = 1
  /\ MAX_TRAIN_EPOCHS = MaxEpochs
  /\ EARLY_STOP_PATIENCE = IF notebook = "finetuning" THEN MaxPatience ELSE 0
  /\ OPTUNA_ENABLED = FALSE
  /\ pc = "preprocessing"
  /\ error = ""
  /\ model_training = FALSE
  /\ rng_draws = 0
  /\ NoSuggestFrame
  /\ NoEvaluateFrame
  /\ NoTraining

\* train_ds = Dataset.from_dict(tokenizer(train_samples)) and the cell that
\* constructs training_args, CustomCallback() and the trainer.
BuildTrainer ==
  /\ pc = "preprocessing"
  /\ cell = "done"
  /\ train_dataset' = [i \in 1..Len(train_samples) |-> Encode(train_samples[i])]
  /\ remaining_train_epochs' = TRAIN_EPOCHS
  /\ events' = TrainerCallbacks(notebook, OPTUNA_ENABLED)
  /\ pc' = "idle"
  /\ UNCHANGED <<dataVars, cfgVars, error, model_training, rng_draws, scVars,
                 evVars, run, epoch, should_training_stop, patience_counter,
                 last_checkpoint, checkpoints, weights, trials, calls,
                 stop_call, es_fired,
                 train_dataloader>>

\* The notebook is run again from its first cell: every variable of the
\* notebook is assigned anew, and the files in MODELS_DIR stay.
RunAgain ==
  /\ pc = "done"
  /\ run = "finished"
  /\ pipeline_run = 1
  /\ pipeline_run' = 2
  /\ first_run' = [samples |-> samples, train |-> train_samples,
                   val |-> val_samples, changes |-> changes,
                   epochs |-> epoch]
  /\ rng_pos' = Reseed(rng_pos)
  /\ raw_lines' = <<>>
  /\ samples' = <<>>
  /\ windows' = <<>>
  /\ val_idx' = 0
  /\ train_samples' = <<>>
  /\ val_samples' = <<>>
  /\ cell' = "clean"
  /\ pc' = "preprocessing"
  /\ model_training' = FALSE
  /\ rng_draws' = 0
  /\ ClearSuggestFrame
  /\ ClearEvaluateFrame
  /\ run' = "fresh"
  /\ epoch' = 0
  /\ train_dataset' = <<>>
  /\ remaining_train_epochs' = 0
  /\ should_training_stop' = FALSE
  /\ patience_counter' = 0
  /\ last_checkpoint' = None
  /\ weights' = 0
  /\ trials' = 0
  /\ events' = {}
  /\ calls' = 0
  /\ stop_call' = 0
  /\ es_fired' = FALSE
  /\ train_dataloader' = None
  /\ UNCHANGED <<raw_text, SAMPLE_SPAN, SAMPLE_STRIDE, VALIDATION_SPLIT,
                 rng_memo, reference, cfgVars, error, checkpoints>>

NextRepro ==
  \/ StripComments
  \/ FilterLines
  \/ BuildSamples
  \/ ShuffleSamples
  \/ SplitSamples
  \/ BuildTrainer
  \/ StartTraining
  \/ TrainEpoch
  \/ OnEpochEnd
  \/ OnEpochEndCount
  \/ EndOfEpoch
  \/ TrainEnd
  \/ TestingCell
  \/ SuggestEnter
  \/ SuggestStep
  \/ SuggestLoopEnd
  \/ SuggestReturn
  \/ PipelineStep
  \/ PipelineReturn
  \/ EvaluateEnter
  \/ EvaluateFinish
  \/ RunAgain

SpecRepro == InitRepro /\ [][NextRepro]_vars

(***************************************************************************)
(* Properties of the cleaning of the lines                                 *)
(***************************************************************************)
MarkerAt(line, m) ==
  /\ m + 1 <= Len(line)
  /\ line[m] = "/"
  /\ line[m + 1] = "/"

HasMarker(line) == \E m \in 1..Len(line) : MarkerAt(line, m)

FirstMarker(line) ==
  CHOOSE m \in 1..Len(line) :
    MarkerAt(line, m) /\ \A k \in 1..(m - 1) : ~MarkerAt(line, k)

RECURSIVE RStrip(_)
RStrip(line) ==
  IF Len(line) > 0 /\ IsSpace(line[Len(line)])
  THEN RStrip(SubSeq(line, 1, Len(line) - 1))
  ELSE line

\* The text before the first "//" of a line, without the whitespace directly
\* before it; the line itself if it holds no "//".
BeforeFirstMarker(line) ==
  IF HasMarker(line) THEN RStrip(SubSeq(line, 1, FirstMarker(line) - 1))
  ELSE line

NonEmptyRaw == SelectSeq(raw_text, NonEmpty)

\* C15: comment removal maps every non-empty line that holds "//" to the
\* text before the first "//", the whitespace directly before it removed and
\* everything earlier kept (the empty string if only whitespace stands before
\* it), and leaves a line without "//" unchanged.
C15_CutAtFirstMarker ==
  cell = "filter" =>
    /\ Len(raw_lines) = Len(NonEmptyRaw)
    /\ \A i \in 1..Len(raw_lines) :
         raw_lines[i] = BeforeFirstMarker(NonEmptyRaw[i])

\* A line that is not empty and does not begin, after its leading
\* whitespace, with "#include".
IncludeAfterIndent(line) ==
  \E k \in 0..Len(line) :
    /\ \A i \in 1..k : IsSpace(line[i])
    /\ Len(line) - k >= Len(Include)
    /\ SubSeq(line, k + 1, k + Len(Include)) = Include

Kept(line) == Len(line) > 0 /\ ~IncludeAfterIndent(line)

KeptPositions(lines) == {j \in 1..Len(lines) : Kept(lines[j])}

\* out holds exactly the kept lines of lines, each once, in their order.
IsFilterOf(out, lines) ==
  LET kept == KeptPositions(lines)
  IN /\ Len(out) = Cardinality(kept)
     /\ \A j \in kept :
          out[Cardinality({k \in kept : k <= j})] = lines[j]

\* C16: the cleaned lines are, in their original order and each once,
\* exactly the comment-stripped lines that are not empty and whose
\* left-trimmed content does not begin with "#include".
C16_FilterKeepsOrder ==
  [][cell = "filter" => IsFilterOf(raw_lines', raw_lines)]_vars

C16_Witness ==
  /\ cell = "window"
  /\ raw_text = <<LineB, LineIndentedInc, LineComment, LineBlank, LineA>>
  /\ raw_lines = <<<<"b">>, LineBlank, LineA>>

(***************************************************************************)
(* Properties of suggest_changes and evaluate_model                        *)
(***************************************************************************)
Gated == notebook = "pretraining"

InSuggest == sc_caller # "none"

Generated == Len(ids) - input_len

\* suggest_changes has returned its text.
Returned ==
  /\ InSuggest
  /\ pc \notin {"sc_enter", "sc_loop", "sc_exit", "sc_pipe", "raised"}

\* C6: the gated decoder never generates more than max_new_tokens tokens, and
\* it generates no token and returns the empty string when the top
\* probability of the first step is below min_prob.
C6_CapAndFirstStepGate ==
  (Gated /\ InSuggest) =>
    /\ Generated <= MAX_GEN_TOKENS
    /\ Generated <= Len(step_probs)
    /\ (Len(step_probs) >= 1 /\ step_probs[1] < min_p) =>
         /\ Generated = 0
         /\ Len(step_probs) = 1
         /\ Returned => changes = <<>>

C6_Witness ==
  /\ Gated
  /\ Returned
  /\ MAX_GEN_TOKENS >= 2
  /\ min_p = 95
  /\ step_probs = <<50>>
  /\ changes = <<>>

\* C7: the gate compares strictly: a selected token whose probability equals
\* min_p is accepted and appended, and generation stops at the gate only when
\* the selected token's probability is strictly below min_p.
C7_StrictGate ==
  (Gated /\ InSuggest) =>
    /\ \A k \in 1..Len(step_probs) :
         /\ step_probs[k] >= min_p =>
              /\ Len(ids) >= input_len + k
              /\ ids[input_len + k] = step_ids[k]
         /\ step_probs[k] < min_p =>
              /\ k = Len(step_probs)
              /\ stopped_by = "gate"
              /\ Generated = k - 1
    /\ stopped_by = "gate" =>
         /\ Len(step_probs) >= 1
         /\ step_probs[Len(step_probs)] < min_p

C7_Witness ==
  /\ Gated
  /\ Returned
  /\ Len(step_probs) = 2
  /\ step_probs[1] = min_p
  /\ step_probs[2] < min_p
  /\ Generated = 1
  /\ changes = Surface(step_ids[1])

\* C8: in both notebooks suggest_changes called with an empty prompt raises
\* ValueError before the tokenizer is called and before any forward pass.
C8_EmptyPromptRejected ==
  (InSuggest /\ prompt = <<>> /\ pc # "sc_enter") =>
    /\ pc = "raised"
    /\ error = PromptEmptyError
    /\ sc_tokenizer_calls = 0
    /\ step_probs = <<>>
    /\ ids = <<>>

C8_Witness ==
  /\ notebook = "finetuning"
  /\ sc_caller = "top"
  /\ prompt = <<>>
  /\ pc = "raised"
  /\ error = PromptEmptyError
  /\ sc_tokenizer_calls = 0

\* C9: evaluate_model called with neither a dataset nor a text raises
\* ValueError before it switches the model's mode, draws from the random
\* generator or prints a section.
C9_MissingSourceRejected ==
  (ev_caller # "none" /\ dataset = None /\ cpp_text = None /\ pc # "ev_enter")
    => /\ pc = "raised"
       /\ error = SourceMissingError
       /\ model_training = mode_before
       /\ rng_draws = 0
       /\ printed = <<>>
       /\ ~InSuggest

C9_Witness ==
  /\ ev_caller = "top"
  /\ dataset = None
  /\ cpp_text = None
  /\ pc = "raised"
  /\ error = SourceMissingError
  /\ model_training
  /\ printed = <<>>

InLoop == pc \in {"sc_loop", "sc_exit"}

\* C18: during a call of the gated decoder the first input_len ids stay the
\* encoded prompt and the sequence changes only by an append at its end; the
\* returned text is the decoding of the ids from position input_len on.
C18_PromptKeptSuffixReturned ==
  /\ []((Gated /\ InSuggest /\ (InLoop \/ Returned)) =>
          /\ input_len = Len(Encode(prompt))
          /\ Len(ids) >= input_len
          /\ SubSeq(ids, 1, input_len) = Encode(prompt)
          /\ Returned =>
               changes = Decode(SubSeq(ids, input_len + 1, Len(ids))))
  /\ [][(Gated /\ InLoop) =>
          \/ ids' = ids
          \/ /\ Len(ids') = Len(ids) + 1
             /\ SubSeq(ids', 1, Len(ids)) = ids]_vars

C18_Witness ==
  /\ Gated
  /\ Returned
  /\ prompt = <<"b", "a", "b">>
  /\ input_len = 2
  /\ ids = <<2, 3, 1, 3>>
  /\ changes = <<"a", "a", "b">>

\* Control is inside a call of evaluate_model, its callee included.
InEvaluate ==
  /\ ev_caller # "none"
  /\ \/ pc \in {"ev_enter", "ev_return"}
     \/ /\ pc \in {"sc_enter", "sc_loop", "sc_pipe", "sc_exit"}
        /\ sc_caller = "evaluate"

\* C19: in a call of evaluate_model that does not raise, the model is in
\* inference mode from before the first forward pass of suggest_changes on,
\* and the call changes nothing of the model but the mode flag: the weights
\* stay, and the flag is never set back to training.
C19_EvalModeBeforeForward ==
  /\ []((InEvaluate /\ pc # "ev_enter") => ~model_training)
  /\ [][InEvaluate =>
          /\ weights' = weights
          /\ model_training' = model_training \/ pc = "ev_enter"
          /\ ~model_training => ~model_training']_vars

C19_Witness ==
  /\ ev_caller = "callback"
  /\ mode_before
  /\ ~model_training
  /\ pc = "cb_count"
  /\ Len(step_probs) >= 1
  /\ Len(printed) = 4
  /\ weights >= 1

SearchPath == {"hyperparameter_search"}

TrainingPath == {"get_last_checkpoint", "train", "final_report", "testing"}

\* C20: OPTUNA_ENABLED selects exactly one path.  On: the search runs, no
\* callback is installed, no checkpoint is looked up, resumed or written, and
\* neither the final validation report nor the testing cell's evaluation
\* runs.  Off: the trainer has CustomCallback, direct training runs and no
\* search is started.
C20_OnePath ==
  /\ [](OPTUNA_ENABLED =>
          /\ events \subseteq SearchPath
          /\ pc # "idle" => events = SearchPath
          /\ last_checkpoint = None
          /\ calls = 0
          /\ ev_caller = "none"
          /\ pc = "done" => trials = MaxTrials)
  /\ [](~OPTUNA_ENABLED =>
          /\ "CustomCallback" \in events
          /\ events \cap SearchPath = {}
          /\ trials = 0
          /\ pc # "idle" => "train" \in events
          /\ pc = "done" => TrainingPath \subseteq events)
  /\ [][OPTUNA_ENABLED => checkpoints' = checkpoints]_vars

C20_Witness ==
  /\ OPTUNA_ENABLED
  /\ pc = "done"
  /\ run = "searched"
  /\ trials = MaxTrials
  /\ events = SearchPath
  /\ checkpoints # {}

\* evaluate_model has derived its prompt.
Reported == ev_caller # "none" /\ Len(printed) >= 3

\* C17: for token ids of length L the prompt of strategy "start" is the first
\* floor(L/2) ids, that of "end" the ids from index floor(L/2) on, that of
\* "all" the whole sequence, and the "start" prompt followed by the "end"
\* prompt is the "all" prompt.
C17_PromptSlices ==
  Reported =>
    LET L == Len(ev_ids)
        h == L \div 2
    IN /\ prompt_strategy = "start" =>
            /\ Len(prompt_ids) = h
            /\ \A i \in 1..h : prompt_ids[i] = ev_ids[i]
       /\ prompt_strategy = "end" =>
            /\ Len(prompt_ids) = L - h
            /\ \A i \in 1..(L - h) : prompt_ids[i] = ev_ids[h + i]
       /\ prompt_strategy = "all" => prompt_ids = ev_ids
       /\ PromptIds(ev_ids, "start") \o PromptIds(ev_ids, "end")
            = PromptIds(ev_ids, "all")

C17_Witness ==
  /\ Reported
  /\ prompt_strategy = "end"
  /\ ev_ids = <<3, 1, EOS>>
  /\ prompt_ids = <<1, EOS>>

(***************************************************************************)
(* Properties of the training run                                          *)
(***************************************************************************)
\* C10: a controller with epoch budget B >= 1 requests the stop exactly in
\* its B-th on_epoch_end call and in no earlier one, whether or not the early
\* stopping callback also requests it.
C10_StopAtBudget ==
  TRAIN_EPOCHS >= 1 =>
    /\ calls < TRAIN_EPOCHS => stop_call = 0
    /\ calls >= TRAIN_EPOCHS =>
         /\ stop_call = TRAIN_EPOCHS
         /\ should_training_stop
    /\ remaining_train_epochs = TRAIN_EPOCHS - calls

C10_Witness ==
  /\ TRAIN_EPOCHS = 3
  /\ calls = 3
  /\ stop_call = 3
  /\ es_fired
  /\ should_training_stop
  /\ run = "finished"

\* C11: with CustomCallback and EarlyStoppingCallback both installed, each of
\* them requests the stop on its own, a request of one is never cleared by
\* the other, and the loop starts no epoch and makes no on_epoch_end call
\* after the first request.
C11_EitherStops ==
  (notebook = "finetuning" /\ run # "fresh") =>
    /\ should_training_stop = (stop_call # 0 \/ es_fired)
    /\ (should_training_stop /\ run = "training") =>
         pc \in {"tr_evaluate", "tr_end"}
    /\ stop_call # 0 => calls = stop_call
    /\ (run = "finished" /\ ~should_training_stop) =>
         epoch >= MAX_TRAIN_EPOCHS

C11_Witness ==
  /\ notebook = "finetuning"
  /\ run = "finished"
  /\ TRAIN_EPOCHS = 3
  /\ calls = 2
  /\ es_fired
  /\ stop_call = 0
  /\ should_training_stop
  /\ epoch < MAX_TRAIN_EPOCHS

\* C12: when the direct training run starts, it resumes at the checkpoint
\* with the largest number if MODELS_DIR holds a checkpoint, and it starts at
\* epoch 0 if MODELS_DIR holds none; no exception is raised in either case.
C12_ResumeOrFresh ==
  (run = "training" /\ calls = 0 /\ pc \in {"tr_epoch", "tr_end"}) =>
    /\ error = ""
    /\ checkpoints = {} => (last_checkpoint = None /\ epoch = 0)
    /\ checkpoints # {} =>
         /\ epoch \in checkpoints
         /\ \A c \in checkpoints : c <= epoch
         /\ last_checkpoint = Some(epoch)

C12_Witness ==
  /\ run = "training"
  /\ calls = 0
  /\ pc = "tr_epoch"
  /\ checkpoints = {1, 2}
  /\ last_checkpoint = Some(2)
  /\ epoch = 2

(***************************************************************************)
(* Properties of the two variants of suggest_changes                       *)
(***************************************************************************)
\* The forward passes of the gated call among the two calls compared.
GatedProbs ==
  IF reference.variant = "pretraining" THEN reference.step_probs
  ELSE step_probs

GatedIds == IF reference.variant = "pretraining" THEN reference.step_ids
            ELSE step_ids

AlwaysConfident == \A k \in 1..Len(GatedProbs) : GatedProbs[k] >= min_p

NeverEos == \A k \in 1..Len(GatedIds) : GatedIds[k] # EOS

SecondRunSplit == pipeline_run = 2 /\ cell = "done"

SamePartitions ==
  /\ samples = first_run.samples
  /\ train_samples = first_run.train
  /\ val_samples = first_run.val

GateSteps == {k \in 1..Len(step_probs) : step_probs[k] < min_p}

\* The zero-based index of the first such pass; a number above
\* MAX_GEN_TOKENS stands for "none".
FirstGateStep ==
  IF GateSteps = {} THEN MAX_GEN_TOKENS + 1
  ELSE (CHOOSE k \in GateSteps : \A j \in GateSteps : k <= j) - 1

\* C21: the gated decoder returns with min(MAX_GEN_TOKENS, k) generated
\* tokens, k the zero-based index of the first forward pass whose top
\* probability is below min_p; without such a pass it has made MAX_GEN_TOKENS
\* passes and appended each one's token; no token is appended after the gate
\* has closed.
C21_GateCount ==
  /\ []((Gated /\ Returned) =>
          /\ Generated = Min(MAX_GEN_TOKENS, FirstGateStep)
          /\ GateSteps = {} => Len(step_probs) = MAX_GEN_TOKENS
          /\ GateSteps # {} => Len(step_probs) = FirstGateStep + 1)
  /\ [][(Gated /\ InSuggest /\ stopped_by = "gate") => ids' = ids]_vars

C21_Witness ==
  /\ Gated
  /\ Returned
  /\ MAX_GEN_TOKENS = 3
  /\ min_p = 95
  /\ step_probs = <<99, 99, 99>>
  /\ Generated = 3
  /\ stopped_by = "length"

(***************************************************************************)
(* Termination of suggest_changes                                          *)
(***************************************************************************)
\* A call of suggest_changes from the top level, run to its end: the
\* interpreter is the only thread and each forward pass returns.
NextDecode ==
  \/ CallSuggest
  \/ SuggestEnter
  \/ SuggestStep
  \/ SuggestLoopEnd
  \/ SuggestReturn
  \/ PipelineStep
  \/ PipelineReturn

SpecDecode == Init /\ [][NextDecode]_vars /\ WF_vars(NextDecode)

\* C22: a call of suggest_changes with a non-empty prompt returns, after at
\* most MAX_GEN_TOKENS forward passes, whatever the model reports; each
\* iteration of the loop appends exactly one id or leaves the loop.
C22_DecodeTerminates ==
  /\ (InSuggest /\ prompt # <<>> /\ pc = "sc_enter") ~> Returned
  /\ []((InSuggest /\ prompt # <<>>) =>
          Len(step_probs) <= MAX_GEN_TOKENS)
  /\ [][(pc = "sc_loop" /\ Len(step_probs') = Len(step_probs) + 1) =>
          \/ ids' = Append(ids, step_ids'[Len(step_ids')]) /\ pc' = "sc_loop"
          \/ ids' = ids /\ pc' = "sc_exit"]_vars

C22_Witness ==
  /\ Gated
  /\ Returned
  /\ prompt = <<"a", "b">>
  /\ MAX_GEN_TOKENS = 2
  /\ Len(step_probs) = 2
  /\ Generated = 1
  /\ stopped_by = "gate"

(***************************************************************************)
(* Properties of CustomCallback.on_epoch_end                               *)
(***************************************************************************)
\* The evaluation of the on_epoch_end call in progress has printed its
\* last section.
CallbackEvaluated == ev_caller = "callback" /\ Len(printed) = 4

SectionOrder == <<"C++ CODE", "TOKENS", "PROMPT", "GENERATED">>

\* suggest_changes is running for evaluate_model.
DecoderInvoked ==
  /\ sc_caller = "evaluate"
  /\ pc \in {"sc_enter", "sc_loop", "sc_pipe", "sc_exit"}

\* C24: a call of evaluate_model that returns has printed the sections
\* C++ CODE, TOKENS, PROMPT, GENERATED in this order; suggest_changes runs
\* after the PROMPT section and before the GENERATED section has been
\* printed, and the GENERATED section shows what it returned.
C24_SectionOrder ==
  /\ [](ev_caller # "none" =>
          /\ Len(printed) <= 4
          /\ \A i \in 1..Len(printed) : printed[i].section = SectionOrder[i]
          /\ DecoderInvoked => Len(printed) = 3
          /\ (sc_caller = "evaluate" /\ step_probs # <<>>) => Len(printed) >= 3
          /\ Len(printed) = 4 => (Returned /\ printed[4].text = changes)
          /\ (ev_caller = "top" /\ pc = "done") => Len(printed) = 4)
  /\ [][ev_caller # "none" =>
          \/ printed' = printed
          \/ printed = <<>> /\ Len(printed') = 3 /\ pc = "ev_enter"
          \/ /\ printed' = Append(printed, Section("GENERATED", changes))
             /\ pc = "ev_return"
          \/ ev_caller' = "none"]_vars

C24_Witness ==
  /\ ev_caller = "top"
  /\ pc = "done"
  /\ prompt_strategy = "end"
  /\ Len(printed) = 4
  /\ printed[3] = Section("PROMPT", <<"a", "b">>)
  /\ printed[4].section = "GENERATED"
  /\ Len(step_probs) >= 1
  /\ printed[4].text # <<>>

(***************************************************************************)
(* Properties of the epoch budget across runs and at its edges             *)
(***************************************************************************)
Resumed == run # "fresh" /\ last_checkpoint # None

\* C25: training resumed from a checkpoint starts with
\* _remaining_train_epochs equal to TRAIN_EPOCHS, whatever the epoch of the
\* checkpoint: the counter falls by one per on_epoch_end call of this run,
\* and with TRAIN_EPOCHS >= 1 the stop is requested in call TRAIN_EPOCHS of
\* this run and in no earlier one.
C25_FullBudgetOnResume ==
  Resumed =>
    /\ remaining_train_epochs = TRAIN_EPOCHS - calls
    /\ epoch >= last_checkpoint[1]
    /\ calls \in {epoch - last_checkpoint[1], epoch - last_checkpoint[1] + 1}
    /\ TRAIN_EPOCHS >= 1 =>
         /\ calls < TRAIN_EPOCHS => stop_call = 0
         /\ stop_call # 0 => stop_call = TRAIN_EPOCHS

C25_Witness ==
  /\ Resumed
  /\ notebook = "pretraining"
  /\ last_checkpoint = Some(2)
  /\ TRAIN_EPOCHS = 2
  /\ MAX_TRAIN_EPOCHS = 4
  /\ epoch = 4
  /\ calls = 2
  /\ stop_call = 2
  /\ should_training_stop
  /\ run = "finished"

\* Bound on the on_epoch_end calls made on one CustomCallback object
MaxCalls == 5

\* A caller that holds a CustomCallback and a TrainerControl and calls
\* on_epoch_end again and again, whatever the control says.
CallOnEpochEnd ==
  /\ pc \in {"idle", "tr_evaluate"}
  /\ ~SearchSelected(OPTUNA_ENABLED)
  /\ calls < MaxCalls
  /\ pc' = "cb_enter"
  /\ UNCHANGED <<dataVars, cfgVars, error, model_training, rng_draws, scVars,
                 evVars, trVars>>

NextCallback ==
  \/ CallOnEpochEnd
  \/ OnEpochEnd
  \/ OnEpochEndCount
  \/ SuggestEnter
  \/ SuggestStep
  \/ SuggestLoopEnd
  \/ SuggestReturn
  \/ PipelineStep
  \/ PipelineReturn
  \/ EvaluateEnter
  \/ EvaluateFinish

SpecCallback == InitTrain /\ [][NextCallback]_vars

\* C26: a CustomCallback with TRAIN_EPOCHS <= 0 never sets
\* should_training_stop: its counter only falls below zero and is never equal
\* to zero after a decrement; and once a callback has set the flag, no later
\* call sets it again or clears it.
C26_NoStopWithoutBudget ==
  /\ [](TRAIN_EPOCHS <= 0 =>
          /\ stop_call = 0
          /\ ~should_training_stop
          /\ remaining_train_epochs = TRAIN_EPOCHS - calls
          /\ calls >= 1 => remaining_train_epochs < 0)
  /\ [](stop_call # 0 =>
          /\ stop_call = TRAIN_EPOCHS
          /\ should_training_stop
          /\ remaining_train_epochs = TRAIN_EPOCHS - calls
          /\ remaining_train_epochs <= 0)
  /\ [][stop_call # 0 =>
          (stop_call' = stop_call /\ should_training_stop')]_vars

C26_Witness ==
  /\ TRAIN_EPOCHS = 0
  /\ calls = 4
  /\ remaining_train_epochs = 0 - 4
  /\ stop_call = 0
  /\ ~should_training_stop
  /\ pc = "tr_evaluate"

(***************************************************************************)
(* evaluate_model with an empty derived prompt                             *)
(***************************************************************************)
\* evaluate_model has derived its prompt and called suggest_changes.
PromptDerived == ev_caller # "none" /\ sc_caller = "evaluate"

\* The cases in which the derived prompt is empty.
EmptyPromptCase ==
  \/ prompt_strategy = "start" /\ Len(ev_ids) <= 1
  \/ dataset = None /\ cpp_text = Some(<<>>)

\* C27: when the prompt that evaluate_model derives is empty (strategy
\* "start" on at most one token id, or an empty cpp_text under any
\* strategy), the call ends with the ValueError of suggest_changes, raised
\* after the sections C++ CODE, TOKENS and PROMPT have been printed and
\* model.eval() has been called, and before the tokenizer or the model is
\* called for the prompt.
C27_EmptyPromptAfterSections ==
  /\ []((PromptDerived /\ EmptyPromptCase) => prompt = <<>>)
  /\ []((PromptDerived /\ prompt = <<>> /\ pc # "sc_enter") =>
          /\ pc = "raised"
          /\ error = PromptEmptyError
          /\ Len(printed) = 3
          /\ \A i \in 1..3 : printed[i].section = SectionOrder[i]
          /\ printed[3].text = <<>>
          /\ ~model_training
          /\ sc_tokenizer_calls = 0
          /\ step_probs = <<>>)
  /\ [][(PromptDerived /\ error' = PromptEmptyError /\ error = "") =>
          /\ Len(printed) = 3
          /\ printed' = printed
          /\ ~model_training
          /\ ~model_training']_vars

C27_Witness ==
  /\ ev_caller = "top"
  /\ sc_caller = "evaluate"
  /\ prompt_strategy = "start"
  /\ Len(ev_ids) = 1
  /\ mode_before
  /\ ~model_training
  /\ pc = "raised"
  /\ error = PromptEmptyError
  /\ Len(printed) = 3

(***************************************************************************)
(* The end-of-text token in the gated loop                                 *)
(***************************************************************************)
\* The forward passes that selected the end-of-text token with a probability
\* that passes the gate.
EosAccepted ==
  {k \in 1..Len(step_probs) : step_ids[k] = EOS /\ step_probs[k] >= min_p}

\* C28: in the gated loop an end-of-text token whose probability is at least
\* min_p is appended like any other id and the loop goes on: the call ends
\* only with a probability below min_p or with MAX_GEN_TOKENS generated ids.
C28_NoEosStop ==
  /\ []((Gated /\ InSuggest) =>
          /\ \A k \in EosAccepted :
               /\ Len(ids) >= input_len + k
               /\ ids[input_len + k] = EOS
               /\ (Returned /\ k < MAX_GEN_TOKENS) => Len(step_probs) > k
          /\ stopped_by \in {"none", "gate", "length"}
          /\ stopped_by = "gate" => step_probs[Len(step_probs)] < min_p
          /\ stopped_by = "length" => Generated >= MAX_GEN_TOKENS)
  /\ [][(Gated /\ pc = "sc_loop" /\ Len(step_ids') = Len(step_ids) + 1
          /\ Len(step_ids') \in EosAccepted') =>
          (pc' = "sc_loop" /\ ids' = Append(ids, EOS))]_vars

C28_Witness ==
  /\ Gated
  /\ Returned
  /\ MAX_GEN_TOKENS = 3
  /\ min_p = 95
  /\ step_ids = <<EOS, 1, 2>>
  /\ step_probs = <<95, 99, 50>>
  /\ Generated = 2
  /\ changes = Decode(<<EOS, 1>>)
  /\ changes # <<"a">>

(***************************************************************************)
(* Which cleaned lines the samples cover                                   *)
(***************************************************************************)
\* The positions in raw_lines that the k-th sample is built from.
WindowPositions(k) ==
  {(k - 1) * SAMPLE_STRIDE + j : j \in 1..SAMPLE_SPAN}

CoveredPositions == UNION {WindowPositions(k) : k \in 1..Len(windows)}

\* (N - span) mod stride
TrailingLines == (Len(raw_lines) - SAMPLE_SPAN) % SAMPLE_STRIDE

\* C29: with N >= SAMPLE_SPAN cleaned lines, the samples are built from
\* positions inside raw_lines and from none of the last
\* (N - SAMPLE_SPAN) mod SAMPLE_STRIDE positions; with
\* SAMPLE_STRIDE <= SAMPLE_SPAN in addition, every other position is in some
\* sample and two consecutive samples have exactly
\* SAMPLE_SPAN - SAMPLE_STRIDE lines in common, the end of the one being the
\* start of the next.
C29_TrailingLinesUncovered ==
  (Windowed /\ Len(raw_lines) >= SAMPLE_SPAN) =>
    LET N == Len(raw_lines)
        M == Len(windows)
    IN /\ M >= 1
       /\ \A k \in 1..M :
            /\ WindowPositions(k) \subseteq 1..N
            /\ LinesOf(windows[k]) =
                 [j \in 1..SAMPLE_SPAN |->
                    raw_lines[(k - 1) * SAMPLE_STRIDE + j]]
       /\ \A i \in (N - TrailingLines + 1)..N : i \notin CoveredPositions
       /\ N - TrailingLines \in CoveredPositions
       /\ SAMPLE_STRIDE <= SAMPLE_SPAN =>
            /\ CoveredPositions = 1..(N - TrailingLines)
            /\ \A k \in 1..(M - 1) :
                 /\ Cardinality(WindowPositions(k) \cap WindowPositions(k + 1))
                      = SAMPLE_SPAN - SAMPLE_STRIDE
                 /\ SubSeq(LinesOf(windows[k]), SAMPLE_STRIDE + 1, SAMPLE_SPAN)
                      = SubSeq(LinesOf(windows[k + 1]), 1,
                               SAMPLE_SPAN - SAMPLE_STRIDE)

C29_Witness ==
  /\ cell = "shuffle"
  /\ Len(raw_lines) = 5
  /\ SAMPLE_SPAN = 2
  /\ SAMPLE_STRIDE = 2
  /\ TrailingLines = 1
  /\ Len(windows) = 2
  /\ CoveredPositions = 1..4
  /\ raw_lines[5] # raw_lines[4]

(***************************************************************************)
(* Lines of whitespace in the cleaning steps                               *)
(***************************************************************************)
\* A line that is not empty and holds nothing but whitespace.
WhitespaceOnly(line) ==
  /\ Len(line) > 0
  /\ \A i \in 1..Len(line) : IsSpace(line[i])

\* A line of whitespace, then "//", then anything.
WhitespaceThenComment(line) ==
  \E m \in 2..(Len(line) - 1) :
    /\ \A i \in 1..(m - 1) : IsSpace(line[i])
    /\ line[m] = "/"
    /\ line[m + 1] = "/"

\* C30: a raw line of nothing but whitespace passes both cleaning steps
\* unchanged and is part of the samples (here each cleaned line is a sample
\* of its own); a raw line of whitespace followed by a comment becomes the
\* empty string in the first step and is dropped in the second, which leaves
\* no empty line.
C30_WhitespaceLineKept ==
  /\ cell = "filter" =>
       /\ Len(raw_lines) = Len(NonEmptyRaw)
       /\ \A i \in 1..Len(raw_lines) :
            /\ WhitespaceOnly(NonEmptyRaw[i]) => raw_lines[i] = NonEmptyRaw[i]
            /\ WhitespaceThenComment(NonEmptyRaw[i]) => raw_lines[i] = <<>>
            /\ WhitespaceOnly(raw_lines[i]) => WhitespaceOnly(NonEmptyRaw[i])
  /\ cell \in {"window", "shuffle"} =>
       /\ SelectSeq(raw_lines, WhitespaceOnly) =
            SelectSeq(raw_text, WhitespaceOnly)
       /\ \A i \in 1..Len(raw_lines) : raw_lines[i] # <<>>
       /\ Len(raw_lines) + Len(SelectSeq(raw_text, WhitespaceThenComment))
            <= Len(NonEmptyRaw)
  /\ cell = "shuffle" =>
       SelectSeq(samples, WhitespaceOnly) = SelectSeq(raw_text, WhitespaceOnly)

C30_Witness ==
  /\ cell = "shuffle"
  /\ raw_text = <<LineA, LineBlank, LineComment, LineB>>
  /\ raw_lines = <<LineA, LineBlank, <<"b">> >>
  /\ samples = raw_lines

=============================================================================
